---------------------------- MODULE Spec2Model ----------------------------
(***************************************************************************)
(* MemoryPal: the sequence-recall game (src/scripts/games/sequence.js).    *)
(*                                                                         *)
(* The SequenceGame object is driven by four commands (startGame,          *)
(* handleColorClick, replaySequence, togglePause) and by the callbacks it  *)
(* leaves in the browser's timer queue: one per suspended showSequence     *)
(* loop (await this.delay(interval)), one per level advance (2000 ms) and  *)
(* one per game over (1500 ms).  Commands arrive at arbitrary times, so    *)
(* the pending callbacks may fire in any order relative to each other and  *)
(* to the commands; every handler runs to completion (single thread).      *)
(***************************************************************************)
EXTENDS Integers, Sequences, FiniteSets, Bags, TLC

\* ------------------------------------------------------------------ bounds
\* longest sequence the model lets a level advance build
MaxLevel == 2
\* longest playerSequence the model lets the player build
MaxPlayerLen == 3
\* most callbacks pending in the timer queue at once
MaxTimers == 2
\* largest score the model lets the player reach
MaxScore == 220
\* how many of this.colors Math.random() draws from
MaxDraw == 2
\* most sessions the model lets the Store hold
MaxSessions == 3

\* --------------------------------------------------------------- constants
\* this.colors
ColorList == <<"red", "blue", "green", "yellow">>

Colors == {ColorList[k] : k \in DOMAIN ColorList}

\* the colors Math.random() is let to pick
Drawn == {ColorList[k] : k \in {j \in DOMAIN ColorList : j <= MaxDraw}}

\* the values of the difficulty <select>
Difficulties == {"easy", "medium", "hard", "adaptive"}

\* points per correct step, per level
StepPoints == 10

\* level-completion bonus, per level
LevelBonus == 50

\* getRecentErrorRate(): the constant 0.3, in tenths
GetRecentErrorRate == 3

\* positions a shuffle is taken to rotate the deck by
MaxShuffle == 1

\* the unmatched symbols, lowest first, whose cards the player clicks
MaxInPlay == 2

\* README: "Progressive difficulty from 3-4 items to 8+ items"
FirstLevelItems == 3

\* value of this.sequence[i] for i past the end of the array
Undefined == "undefined"

\* JavaScript values as the Store's preferences hold them: the type, and the
\* number or the string (a boolean is written 0 or 1)
JsUndefined == [type |-> "undefined", num |-> 0, str |-> ""]

JsNull == [type |-> "null", num |-> 0, str |-> ""]

JsNumber(n) == [type |-> "number", num |-> n, str |-> ""]

JsString(t) == [type |-> "string", num |-> 0, str |-> t]

JsBoolean(b) == [type |-> "boolean", num |-> IF b THEN 1 ELSE 0, str |-> ""]

\* what the operators || and if take for false
Falsy(v) ==
  \/ v.type \in {"undefined", "null"}
  \/ v.type = "number" /\ v.num = 0
  \/ v.type = "boolean" /\ v.num = 0
  \/ v.type = "string" /\ v.str = ""

\* the preference keys the scripts use
PrefKeys ==
  {"sequence-difficulty", "sequence-speed", "matching-difficulty",
   "matching-theme", "matching-gridsize", "last-game"}

\* ------------------------------------------------------------------- state
VARIABLES
  sequence,           \* this.sequence (1-based here, 0-based in the code)
  playerSequence,     \* this.playerSequence
  level,              \* this.level
  score,              \* this.score
  isPlaying,          \* this.isPlaying
  isShowingSequence,  \* this.isShowingSequence
  isPlayerTurn,       \* this.isPlayerTurn
  isPaused,           \* this.isPaused
  difficulty,         \* this.difficulty
  timers,             \* bag of pending callbacks of the timer queue
  lastReveal,         \* the Presenter's last "reveal color" event
  mismatched,         \* a submission mismatched since the last startGame
  moves,              \* a submission was accepted since the last startGame
  quiet,              \* the caller issues no further commands
  recovered,          \* since going quiet, PlayerTurn of level 1 was entered
  lastOp,             \* the handler that ran last
  hasStore,           \* window.storageManager is there
  sessions,           \* the Store's data.sessions
  gameSession,        \* this.gameSession: position in sessions, 0 if none
  endCalls,           \* recordGameEnd("sequence") calls since the last startGame
  matchPlaying,       \* the matching game's isPlaying
  matchSession,       \* the matching game's gameSession, 0 if none
  request,            \* the request of the service worker's fetch event
  response,           \* what the service worker answered it with
  preferences,        \* the Store's data.user.preferences
  got,                \* the last getUserPreference call and what it returned
  streak,             \* the Store's data.progress.streak
  longestStreak,      \* the Store's data.progress.longestStreak
  matchDifficulty,    \* the matching game's this.difficulty
  gridSize,           \* the matching game's this.gridSize
  totalPairs,         \* the matching game's this.totalPairs
  cards,              \* the matching game's this.cards
  flippedCards,       \* this.flippedCards: positions in cards
  matchedPairs,       \* the matching game's this.matchedPairs
  matchTimers         \* bag of the matching game's pending callbacks

vars == <<sequence, playerSequence, level, score, isPlaying, isShowingSequence,
          isPlayerTurn, isPaused, difficulty, timers, lastReveal,
          mismatched, moves, quiet, recovered, lastOp, hasStore, sessions,
          gameSession, endCalls, matchPlaying, matchSession, request,
          response, preferences, got, streak, longestStreak, matchDifficulty,
          gridSize, totalPairs, cards, flippedCards, matchedPairs,
          matchTimers>>

\* the fields of SequenceState
gameVars == <<sequence, playerSequence, level, score, isPlaying,
              isShowingSequence, isPlayerTurn, isPaused>>

\* The whole state as one record, so that a handler is the composition of the
\* methods it calls.
Cur ==
  [sequence |-> sequence, playerSequence |-> playerSequence, level |-> level,
   score |-> score, isPlaying |-> isPlaying,
   isShowingSequence |-> isShowingSequence, isPlayerTurn |-> isPlayerTurn,
   isPaused |-> isPaused, difficulty |-> difficulty, timers |-> timers,
   lastReveal |-> lastReveal,
   mismatched |-> mismatched, moves |-> moves, quiet |-> quiet,
   recovered |-> recovered, hasStore |-> hasStore, sessions |-> sessions,
   gameSession |-> gameSession, endCalls |-> endCalls,
   matchPlaying |-> matchPlaying, matchSession |-> matchSession,
   preferences |-> preferences, streak |-> streak,
   longestStreak |-> longestStreak, matchDifficulty |-> matchDifficulty,
   gridSize |-> gridSize, totalPairs |-> totalPairs, cards |-> cards,
   flippedCards |-> flippedCards, matchedPairs |-> matchedPairs,
   matchTimers |-> matchTimers]

\* what the page's scripts leave alone: the service worker's side
workerVars == <<request, response>>

\* the state of the matching game and of its timer queue
boardVars == <<matchDifficulty, gridSize, totalPairs, cards, flippedCards,
               matchedPairs, matchTimers>>

Becomes(s, op) ==
  /\ sequence' = s.sequence
  /\ playerSequence' = s.playerSequence
  /\ level' = s.level
  /\ score' = s.score
  /\ isPlaying' = s.isPlaying
  /\ isShowingSequence' = s.isShowingSequence
  /\ isPlayerTurn' = s.isPlayerTurn
  /\ isPaused' = s.isPaused
  /\ difficulty' = s.difficulty
  /\ timers' = s.timers
  /\ lastReveal' = s.lastReveal
  /\ mismatched' = s.mismatched
  /\ moves' = s.moves
  /\ quiet' = s.quiet
  /\ recovered' = s.recovered
  /\ hasStore' = s.hasStore
  /\ sessions' = s.sessions
  /\ gameSession' = s.gameSession
  /\ endCalls' = s.endCalls
  /\ matchPlaying' = s.matchPlaying
  /\ matchSession' = s.matchSession
  /\ preferences' = s.preferences
  /\ streak' = s.streak
  /\ longestStreak' = s.longestStreak
  /\ matchDifficulty' = s.matchDifficulty
  /\ gridSize' = s.gridSize
  /\ totalPairs' = s.totalPairs
  /\ cards' = s.cards
  /\ flippedCards' = s.flippedCards
  /\ matchedPairs' = s.matchedPairs
  /\ matchTimers' = s.matchTimers
  /\ lastOp' = op
  /\ UNCHANGED <<workerVars, got>>

\* ------------------------------------------------------------- timer queue
\* A suspended showSequence loop: its loop variable i, whether a startGame
\* ran since it was scheduled (stale) and whether togglePause paused the game
\* since it was scheduled (interrupted).
ShowTimer(i) == [kind |-> "show", i |-> i, stale |-> FALSE, interrupted |-> FALSE]

\* the 2000 ms callback of handleSequenceComplete
AdvanceTimer == [kind |-> "advance", i |-> 0, stale |-> FALSE, interrupted |-> FALSE]

\* the 1500 ms callback of handleIncorrectColor
EndTimer == [kind |-> "end", i |-> 0, stale |-> FALSE, interrupted |-> FALSE]

Schedule(s, t) == [s EXCEPT !.timers = @ (+) SetToBag({t})]

Unschedule(s, t) == [s EXCEPT !.timers = @ (-) SetToBag({t})]

\* every pending callback becomes stale when startGame runs: nothing cancels it
MarkStale(t) == [t EXCEPT !.stale = TRUE]

\* a suspended showSequence loop over which the game was paused
MarkInterrupted(t) == IF t.kind = "show" THEN [t EXCEPT !.interrupted = TRUE] ELSE t

NumTimers(s) == BagCardinality(s.timers)

Pending(kind) == {t \in BagToSet(timers) : t.kind = kind}

NumPending(kind) == BagCardinality([t \in Pending(kind) |-> timers[t]])

\* ----------------------------------------------------------------- methods
\* resetGame() that forgets to clear isPaused
ResetGameKeepsPause(s) ==
  [s EXCEPT !.sequence = <<>>, !.playerSequence = <<>>, !.level = 1,
            !.score = 0, !.isPlaying = FALSE, !.isShowingSequence = FALSE,
            !.isPlayerTurn = FALSE]

\* resetGame() that forgets to put level back to 1
ResetGameKeepsLevel(s) ==
  [s EXCEPT !.sequence = <<>>, !.playerSequence = <<>>,
            !.score = 0, !.isPlaying = FALSE, !.isShowingSequence = FALSE,
            !.isPlayerTurn = FALSE, !.isPaused = FALSE]

\* resetGame()
ResetGame(s) ==
  [s EXCEPT !.sequence = <<>>, !.playerSequence = <<>>, !.level = 1,
            !.score = 0, !.isPlaying = FALSE, !.isShowingSequence = FALSE,
            !.isPlayerTurn = FALSE, !.isPaused = FALSE]

\* getAdaptiveColor() always taking its "make it easier" branch
GetAdaptiveColorAvoidsRepeat(seq) ==
  {c \in Colors : Len(seq) = 0 \/ c # seq[Len(seq)]}

\* getAdaptiveColor(): the colors it can return for sequence seq
GetAdaptiveColor(seq) ==
  IF GetRecentErrorRate > 5
  THEN {c \in Colors : Len(seq) = 0 \/ c # seq[Len(seq)]}
  ELSE IF GetRecentErrorRate < 2 THEN Colors
  ELSE Colors

\* addToSequence() whose "easy" case draws like "medium"
NextColorsEasyRepeats(seq, diff) ==
  CASE diff = "adaptive" -> GetAdaptiveColor(seq)
    [] OTHER -> Colors

\* addToSequence(): the colors Math.random() can make it push
NextColors(seq, diff) ==
  CASE diff = "easy" -> {c \in Colors : ~(Len(seq) > 0 /\ c = seq[Len(seq)])}
    [] diff = "medium" -> Colors
    [] diff = "hard" -> Colors
    [] diff = "adaptive" -> GetAdaptiveColor(seq)
    [] OTHER -> Colors

\* addToSequence() that starts the sequence over with the color drawn
AddToSequenceReplaces(s, newColor) == [s EXCEPT !.sequence = <<newColor>>]

\* addToSequence(), newColor being the color drawn
AddToSequence(s, newColor) == [s EXCEPT !.sequence = Append(@, newColor)]

\* startPlayerTurn() that forgets to clear isShowingSequence
StartPlayerTurnStillShowing(s) ==
  [s EXCEPT !.isPlayerTurn = TRUE,
            !.recovered = @ \/ (s.quiet /\ s.isPlaying /\ s.level = 1)]

\* startPlayerTurn()
StartPlayerTurn(s) ==
  [s EXCEPT !.isShowingSequence = FALSE, !.isPlayerTurn = TRUE,
            !.recovered = @ \/ (s.quiet /\ s.isPlaying /\ s.level = 1)]

\* the Presenter is asked to flash sequence[i]
Reveal(s, i) == [s EXCEPT !.lastReveal = [prev |-> @.idx, idx |-> i]]

\* showSequence() whose loop stops one element short
ShowLoopSkipsLast(s, i) ==
  IF i + 1 < Len(s.sequence) /\ ~(~s.isPlaying \/ s.isPaused)
  THEN Schedule(Reveal(s, i), ShowTimer(i))
  ELSE IF s.isPlaying /\ ~s.isPaused THEN StartPlayerTurn(s) ELSE s

\* showSequence() whose loop tests isPlaying only
ShowLoopIgnoresPause(s, i) ==
  IF i < Len(s.sequence) /\ s.isPlaying
  THEN Schedule(Reveal(s, i), ShowTimer(i))
  ELSE IF s.isPlaying /\ ~s.isPaused THEN StartPlayerTurn(s) ELSE s

\* showSequence() from the loop test with loop variable i (0-based) to its
\* next await, or to its end
ShowLoop(s, i) ==
  IF i < Len(s.sequence) /\ ~(~s.isPlaying \/ s.isPaused)
  THEN Schedule(Reveal(s, i), ShowTimer(i))
  ELSE IF s.isPlaying /\ ~s.isPaused THEN StartPlayerTurn(s) ELSE s

\* showSequence(), up to its first await
ShowSequence(s) ==
  ShowLoop([s EXCEPT !.isShowingSequence = TRUE, !.isPlayerTurn = FALSE], 0)

\* nextLevel()
NextLevel(s, newColor) ==
  ShowSequence(AddToSequence([s EXCEPT !.playerSequence = <<>>], newColor))

\* ------------------------------------------------------------- the Store
\* a || d for numbers: d when a is 0 (or undefined, written 0 here)
OrElse(a, d) == IF a = 0 THEN d ELSE a

\* saveUserPreference(key, value); its saveData() copies the data to
\* localStorage, which no handler reads back before the page is reloaded
SaveUserPreference(s, key, value) == [s EXCEPT !.preferences[key] = value]

\* getUserPreference(key, defaultValue): preferences[key] || defaultValue
GetUserPreference(s, key, defaultValue) ==
  IF Falsy(s.preferences[key]) THEN defaultValue ELSE s.preferences[key]

\* the session object recordGameStart creates; ended says endTime is not null
NewSession(gameType) ==
  [gameType |-> gameType, ended |-> FALSE, score |-> 0, level |-> 1,
   completed |-> FALSE]

\* storageManager.recordGameStart(gameType); the session it returns is the
\* last of sessions
RecordGameStart(s, gameType) ==
  [s EXCEPT !.sessions = Append(@, NewSession(gameType))]

\* updateStreak that leaves the streak standing when a game is lost
UpdateStreakKeepsOnLoss(s, completed) ==
  IF completed
  THEN [s EXCEPT !.streak = @ + 1,
                 !.longestStreak = IF s.streak + 1 > @ THEN s.streak + 1 ELSE @]
  ELSE s

\* updateStreak(completed)
UpdateStreak(s, completed) ==
  IF completed
  THEN [s EXCEPT !.streak = @ + 1,
                 !.longestStreak = IF s.streak + 1 > @ THEN s.streak + 1 ELSE @]
  ELSE [s EXCEPT !.streak = 0]

\* storageManager.recordGameEnd(gameType, gameData), as far as sessions and
\* the streak go
RecordGameEnd(s, gameType, gameData) ==
  LET n == Len(s.sessions)
  IN UpdateStreak(
       IF n > 0 /\ s.sessions[n].gameType = gameType
       THEN [s EXCEPT !.sessions[n] =
               [@ EXCEPT !.ended = TRUE,
                         !.score = OrElse(gameData.score, 0),
                         !.level = OrElse(gameData.level, 1),
                         !.completed = gameData.completed]]
       ELSE s,
       gameData.completed)

\* this.gameSession = window.storageManager?.recordGameStart("sequence")
OpenGameSession(s) ==
  IF s.hasStore
  THEN LET s1 == RecordGameStart(s, "sequence")
       IN [s1 EXCEPT !.gameSession = Len(s1.sessions)]
  ELSE [s EXCEPT !.gameSession = 0]

\* endGame()'s "Record game end"
CloseGameSession(s) ==
  IF s.hasStore /\ s.gameSession # 0
  THEN [RecordGameEnd(s, "sequence",
                      [score |-> s.score, level |-> s.level,
                       completed |-> FALSE])
          EXCEPT !.endCalls = @ + 1]
  ELSE s

\* ----------------------------------------------------- methods, continued
\* startGame()
StartGame(s, newColor) ==
  NextLevel(OpenGameSession([ResetGame(s) EXCEPT !.isPlaying = TRUE,
                                                 !.endCalls = 0]),
            newColor)

\* handleCorrectColor() scoring by the position answered instead of the level
HandleCorrectColorByPosition(s) ==
  [s EXCEPT !.score = @ + StepPoints * Len(s.playerSequence)]

\* handleCorrectColor() adding 10 points whatever the level
HandleCorrectColorFlat(s) == [s EXCEPT !.score = @ + StepPoints]

\* handleCorrectColor()
HandleCorrectColor(s) == [s EXCEPT !.score = @ + StepPoints * s.level]

\* handleIncorrectColor()
HandleIncorrectColor(s) ==
  Schedule([s EXCEPT !.mismatched = TRUE], EndTimer)

\* handleSequenceComplete() without the level bonus
HandleSequenceCompleteNoBonus(s) ==
  Schedule([s EXCEPT !.isPlayerTurn = FALSE], AdvanceTimer)

\* handleSequenceComplete() whose bonus is 50 points whatever the level
HandleSequenceCompleteFlatBonus(s) ==
  Schedule([s EXCEPT !.isPlayerTurn = FALSE,
                     !.score = @ + LevelBonus], AdvanceTimer)

\* handleSequenceComplete()
HandleSequenceComplete(s) ==
  Schedule([s EXCEPT !.isPlayerTurn = FALSE,
                     !.score = @ + s.level * LevelBonus], AdvanceTimer)

\* handleColorClick(color) past its guard
AcceptColor(s, color) ==
    LET s1 == [s EXCEPT !.playerSequence = Append(@, color), !.moves = TRUE]
        currentIndex == Len(s1.playerSequence) - 1
        expectedColor == IF currentIndex < Len(s1.sequence)
                         THEN s1.sequence[currentIndex + 1] ELSE Undefined
    IN IF color = expectedColor
       THEN LET s2 == HandleCorrectColor(s1)
            IN IF Len(s2.playerSequence) = Len(s2.sequence)
               THEN HandleSequenceComplete(s2) ELSE s2
       ELSE HandleIncorrectColor(s1)

\* handleColorClick(color) whose guard tests isPlayerTurn only
HandleColorClickWhilePaused(s, color) ==
  IF ~s.isPlayerTurn THEN s ELSE AcceptColor(s, color)

\* handleColorClick(color)
HandleColorClick(s, color) ==
  IF ~s.isPlayerTurn \/ s.isPaused THEN s ELSE AcceptColor(s, color)

\* the level-advance callback without its level++
LevelAdvanceSameLevel(s, newColor) == NextLevel(s, newColor)

\* the callback handleSequenceComplete schedules
LevelAdvance(s, newColor) == NextLevel([s EXCEPT !.level = @ + 1], newColor)

\* endGame() that leaves isPlayerTurn as it is
EndGameKeepsTurn(s) == CloseGameSession([s EXCEPT !.isPlaying = FALSE])

\* endGame(): this.score goes to recordGameEnd and to the feedback line; the
\* showRestartOption callback it schedules touches the page only
EndGame(s) ==
  CloseGameSession([s EXCEPT !.isPlaying = FALSE, !.isPlayerTurn = FALSE])

\* replaySequence() whose guard does not test isShowingSequence
ReplaySequenceWhileShowing(s) ==
  IF ~s.isPlaying \/ Len(s.sequence) = 0 THEN s
  ELSE ShowSequence([s EXCEPT !.playerSequence = <<>>])

\* replaySequence()
ReplaySequence(s) ==
  IF ~s.isPlaying \/ s.isShowingSequence \/ Len(s.sequence) = 0 THEN s
  ELSE ShowSequence([s EXCEPT !.playerSequence = <<>>])

\* togglePause() without its isPlaying guard
TogglePauseAlways(s) ==
  [s EXCEPT !.isPaused = ~@,
            !.timers = IF s.isPaused THEN @ ELSE BagOfAll(MarkInterrupted, @)]

\* togglePause() that can pause but not resume
TogglePauseOneWay(s) ==
  IF ~s.isPlaying THEN s
  ELSE [s EXCEPT !.isPaused = TRUE,
                 !.timers = IF s.isPaused THEN @ ELSE BagOfAll(MarkInterrupted, @)]

\* togglePause()
TogglePause(s) ==
  IF ~s.isPlaying THEN s
  ELSE [s EXCEPT !.isPaused = ~@,
                 !.timers = IF s.isPaused THEN @ ELSE BagOfAll(MarkInterrupted, @)]

\* ----------------------------------------------------------------- actions
\* what the bounds let a handler produce
Bounded(s) ==
  /\ Len(s.sequence) <= MaxLevel
  /\ Len(s.playerSequence) <= MaxPlayerLen
  /\ NumTimers(s) <= MaxTimers
  /\ s.score <= MaxScore
  /\ Len(s.sessions) <= MaxSessions
  /\ BagCardinality(s.matchTimers) <= MaxTimers

\* Handler op ran to completion and left the state result.  A step the
\* bounds do not admit is left out of the model (so a callback whose run
\* would pass a bound stays pending).
Yields(result, op) == \E s \in {result} : Bounded(s) /\ Becomes(s, op)

\* no fetch event reaches a service worker
NoRequest ==
  [method |-> "none", url |-> <<>>, destination |-> "none", cached |-> FALSE,
   network |-> "none", offlineCached |-> FALSE]

NoResponse == [intercepted |-> FALSE, strategy |-> "none", result |-> "none"]

NoFetch == request = NoRequest /\ response = NoResponse

\* defaultData.user.preferences: {}
FreshPreferences == [k \in PrefKeys |-> JsUndefined]

\* what the constructors of the two games have saved once their loadSettings
\* ran over fresh preferences
LoadedPreferences ==
  [FreshPreferences EXCEPT !["sequence-difficulty"] = JsString("medium"),
                           !["sequence-speed"] = JsNumber(3),
                           !["matching-difficulty"] = JsString("medium"),
                           !["matching-gridsize"] = JsNumber(4),
                           !["matching-theme"] = JsString("emojis")]

\* getUserPreference was not called
NoGet == [key |-> "none", defaultValue |-> JsUndefined, result |-> JsUndefined]

\* the page has no storage manager: nothing is recorded
NoStore ==
  /\ hasStore = FALSE
  /\ sessions = <<>>
  /\ gameSession = 0
  /\ endCalls = 0
  /\ matchPlaying = FALSE
  /\ matchSession = 0
  /\ preferences = FreshPreferences
  /\ got = NoGet
  /\ streak = 0
  /\ longestStreak = 0

\* the matching game as its constructor leaves it: medium, no cards dealt
FreshBoard ==
  /\ matchDifficulty = "medium"
  /\ gridSize = 4
  /\ totalPairs = 8
  /\ cards = <<>>
  /\ flippedCards = <<>>
  /\ matchedPairs = 0
  /\ matchTimers = EmptyBag

Init ==
  /\ sequence = <<>>
  /\ playerSequence = <<>>
  /\ level = 1
  /\ score = 0
  /\ isPlaying = FALSE
  /\ isShowingSequence = FALSE
  /\ isPlayerTurn = FALSE
  /\ isPaused = FALSE
  /\ difficulty = "medium"
  /\ timers = EmptyBag
  /\ lastReveal = [prev |-> -1, idx |-> -1]
  /\ mismatched = FALSE
  /\ moves = FALSE
  /\ quiet = FALSE
  /\ recovered = FALSE
  /\ lastOp = "init"
  /\ NoStore
  /\ NoFetch
  /\ FreshBoard

\* the caller clicks Start; with q the caller issues no command after it
Start(q) ==
  /\ ~quiet
  /\ \E newColor \in NextColors(<<>>, difficulty) \cap Drawn :
       Yields(StartGame([Cur EXCEPT !.timers = BagOfAll(MarkStale, @),
                                      !.mismatched = FALSE, !.moves = FALSE,
                                      !.quiet = q, !.recovered = FALSE],
                        newColor), "start")

\* The colors the caller submits: the expected one (if any) and one other,
\* green (yellow when green is the expected one).  handleColorClick reads the
\* submitted color only to compare it with the expected one.
Submittable ==
  LET expected == IF Len(playerSequence) < Len(sequence)
                  THEN {sequence[Len(playerSequence) + 1]} ELSE {}
  IN expected \cup {IF "green" \in expected THEN "yellow" ELSE "green"}

\* the caller clicks a color button
SubmitColor(color) ==
  /\ ~quiet
  /\ Yields(HandleColorClick(Cur, color), "submit")

\* the caller clicks Replay
Replay ==
  /\ ~quiet
  /\ Yields(ReplaySequence(Cur), "replay")

\* the caller clicks Pause / Resume
Pause ==
  /\ ~quiet
  /\ Yields(TogglePause(Cur), IF isPaused THEN "resume" ELSE "pause")

\* The caller picks a difficulty.  Not a disjunct of Next: "medium", the
\* constructor's value, lets addToSequence draw every color the other
\* difficulties allow, so the reachable game states are the same.
SetDifficulty(d) ==
  /\ ~quiet
  /\ Yields(LET s == [Cur EXCEPT !.difficulty = d]
            IN IF s.hasStore
               THEN SaveUserPreference(s, "sequence-difficulty", JsString(d))
               ELSE s,
            "setDifficulty")

\* the delay of a suspended showSequence loop elapses: i++, then the loop test
FireShow(t) ==
  /\ t.kind = "show"
  /\ BagIn(t, timers)
  /\ Yields(ShowLoop(Unschedule(Cur, t), t.i + 1), "show")

\* the 2000 ms level-advance callback fires
FireAdvance(t) ==
  /\ t.kind = "advance"
  /\ BagIn(t, timers)
  /\ \E newColor \in NextColors(sequence, difficulty) \cap Drawn :
       Yields(LevelAdvance(Unschedule(Cur, t), newColor), "advance")

\* the 1500 ms game-over callback fires
FireEnd(t) ==
  /\ t.kind = "end"
  /\ BagIn(t, timers)
  /\ Yields(EndGame(Unschedule(Cur, t)), "end")

Next ==
  \/ \E q \in BOOLEAN : Start(q)
  \/ \E color \in Submittable : SubmitColor(color)
  \/ Replay
  \/ Pause
  \/ \E t \in BagToSet(timers) : FireShow(t)
  \/ \E t \in BagToSet(timers) : FireAdvance(t)
  \/ \E t \in BagToSet(timers) : FireEnd(t)

Spec == Init /\ [][Next]_vars

\* The browser runs every pending callback once its delay has elapsed (a
\* level-advance callback the bounds do not admit stays pending).
Fairness ==
  /\ WF_vars(\E t \in BagToSet(timers) : FireShow(t))
  /\ WF_vars(\E t \in BagToSet(timers) : FireAdvance(t))
  /\ WF_vars(\E t \in BagToSet(timers) : FireEnd(t))

FairSpec == Spec /\ Fairness

\* ------------------------------------------------------------------ claims
\* C1: the player's sequence is never longer than the sequence to repeat.
C1_PlayerWithinSequence == Len(playerSequence) <= Len(sequence)

\* C2: once a submission has mismatched, the score stays what it was at the
\* mismatch for the rest of that game (so endGame reports that score).
C2_ScoreFrozenAfterMismatch ==
  [][(mismatched /\ mismatched') => score' = score]_vars

\* C3: right after startGame, whatever the state it was called in, the game
\* is reset and showing the one-color sequence of level 1.
C3_StartResets ==
  lastOp = "start" =>
    /\ Len(sequence) = 1
    /\ playerSequence = <<>>
    /\ level = 1
    /\ score = 0
    /\ isPlaying
    /\ ~isPaused
    /\ isShowingSequence
    /\ ~isPlayerTurn

\* startGame has just run on a game that was paused in mid-presentation
C3_Witness ==
  /\ lastOp = "start"
  /\ \E t \in BagToSet(timers) : t.kind = "show" /\ t.stale /\ t.interrupted

\* C4: a callback left over from an earlier game acts on the new game: in a
\* game where nothing was submitted yet, a level-advance callback that runs
\* raises the level and extends the sequence, and a game-over callback that
\* runs ends the game.
C4_StaleCallbackActs ==
  ~moves =>
    /\ lastOp = "advance" => (level > 1 /\ Len(sequence) = level)
    /\ lastOp = "end" => ~isPlaying

\* a new game at level 2 with two colors, nothing submitted in it
C4_Witness ==
  /\ ~moves
  /\ lastOp = "advance"
  /\ isPlaying
  /\ level = 2
  /\ Len(sequence) = 2

\* C5: while the game is paused, only resume and start change level,
\* sequence, playerSequence, isPlaying, isShowingSequence or isPlayerTurn.
C5_PausedFreezes ==
  [][(isPaused /\ lastOp' \notin {"resume", "start"}) =>
       UNCHANGED <<level, sequence, playerSequence, isPlaying,
                   isShowingSequence, isPlayerTurn>>]_vars

\* a suspended presentation loop resumes: it ends there, with no reveal and
\* no player turn
StopsEarly(t) ==
  /\ timers' = timers (-) SetToBag({t})
  /\ UNCHANGED <<lastReveal, isPlayerTurn, isShowingSequence>>

\* resume starts no presentation and continues none
ResumeRestartsNothing ==
  lastOp' = "resume" =>
    UNCHANGED <<timers, lastReveal, isPlayerTurn, isShowingSequence>>

\* C6 as claimed: a presentation over which the game was paused (and not
\* restarted since) stops early, however soon resume follows, and resume
\* neither continues nor restarts it.
C6_PauseStopsPresentation ==
  [][/\ \A t \in BagToSet(timers) :
          (t.interrupted /\ ~t.stale /\ FireShow(t)) => StopsEarly(t)
     /\ ResumeRestartsNothing]_vars

\* C6 as amended: a presentation whose delay elapses while the game is paused
\* stops early, and resume neither continues nor restarts it.
C6_PausedWakeStopsPresentation ==
  [][/\ \A t \in BagToSet(timers) : (isPaused /\ FireShow(t)) => StopsEarly(t)
     /\ ResumeRestartsNothing]_vars

\* a two-color presentation woke up paused after its first reveal: it is gone,
\* the second color unrevealed, and the game still says it is showing
C6_Witness ==
  /\ lastOp = "show"
  /\ isPaused
  /\ isPlaying
  /\ isShowingSequence
  /\ ~isPlayerTurn
  /\ Len(sequence) = 2
  /\ lastReveal.idx = 0
  /\ timers = EmptyBag

\* C7: at most one presentation loop is suspended at any time, and each
\* reveal either opens a presentation (index 0) or follows the previous one.
C7_OnePresentationInOrder ==
  /\ NumPending("show") <= 1
  /\ lastReveal.idx \in {-1, 0} \/ lastReveal.idx = lastReveal.prev + 1

\* C8: after a startGame that no command follows, once every pending callback
\* has run, PlayerTurn of level 1 has been entered with isPlaying true.
C8_StartRecovers == (quiet /\ timers = EmptyBag) => recovered

\* C9: a color submitted outside PlayerTurn or while paused changes no field
\* of the game and schedules nothing.
C9_SubmitIgnored ==
  [][(lastOp' = "submit" /\ (~isPlayerTurn \/ isPaused)) =>
       UNCHANGED <<gameVars, timers>>]_vars

\* a color was submitted in a paused player turn
C9_Witness == lastOp = "submit" /\ isPaused /\ isPlayerTurn

\* C10: while playing, isShowingSequence and isPlayerTurn are not both true.
C10_ShowingXorPlayerTurn == isPlaying => ~(isShowingSequence /\ isPlayerTurn)

\* the presentation has just handed over to the player
C10_Witness ==
  lastOp = "show" /\ isPlaying /\ isPlayerTurn /\ ~isShowingSequence

\* this step is handleColorClick(color) getting past its guard
Accepted(color) ==
  /\ lastOp' = "submit"
  /\ isPlayerTurn /\ ~isPaused
  /\ playerSequence' = Append(playerSequence, color)

\* color is what the sequence holds at position playerSequence.length
Matches(color) ==
  /\ Len(playerSequence) < Len(sequence)
  /\ color = sequence[Len(playerSequence) + 1]

C12_CorrectStep ==
  [][\A color \in Colors :
       Accepted(color) =>
         /\ (Matches(color) /\ Len(playerSequence) + 1 < Len(sequence)) =>
              /\ score' = score + StepPoints * level
              /\ isPlayerTurn'
              /\ UNCHANGED <<sequence, level, isPlaying, isShowingSequence,
                             isPaused, timers, mismatched>>
         /\ ~Matches(color) =>
              /\ mismatched'
              /\ score' = score]_vars

\* the first of the two colors of level 2 was answered correctly: 60 points
\* from level 1, 20 from this step
C12_Witness ==
  /\ lastOp = "submit"
  /\ isPlayerTurn /\ ~mismatched
  /\ level = 2
  /\ Len(sequence) = 2
  /\ playerSequence = <<sequence[1]>>
  /\ score = 80

\* --------------------------------------------------------- all-correct play
\* the caller clicks Start with no callback of an earlier game pending
StartFresh == timers = EmptyBag /\ Start(FALSE)

\* the caller clicks the button of the color the sequence expects next
SubmitExpected ==
  /\ Len(playerSequence) < Len(sequence)
  /\ SubmitColor(sequence[Len(playerSequence) + 1])

\* The game as played by a caller who answers every level with exactly its
\* sequence and never clicks Replay; Pause / Resume stay available.
PerfectNext ==
  \/ StartFresh
  \/ SubmitExpected
  \/ Pause
  \/ \E t \in BagToSet(timers) : FireShow(t)
  \/ \E t \in BagToSet(timers) : FireAdvance(t)

PerfectSpec == Init /\ [][PerfectNext]_vars

\* sum over L = 1..n of 10*L*L + 50*L
RECURSIVE PerfectScore(_)
PerfectScore(n) ==
  IF n <= 0 THEN 0 ELSE PerfectScore(n - 1) + 10 * n * n + 50 * n

\* C13: in all-correct play from startGame, whenever a level has just been
\* completed (playerSequence has reached the length of sequence) the score is
\* the sum over L = 1..level of 10*L*L + 50*L; that is 60 after level 1 and
\* 200 after level 2.
C13_PerfectPlayScore ==
  (Len(sequence) > 0 /\ Len(playerSequence) = Len(sequence)) =>
    /\ score = PerfectScore(level)
    /\ level = 1 => score = 60
    /\ level = 2 => score = 200

\* level 2 has just been completed
C13_Witness ==
  /\ lastOp = "submit"
  /\ level = 2
  /\ Len(playerSequence) = 2
  /\ playerSequence = sequence
  /\ ~isPlayerTurn
  /\ score = 200

\* the game is over: Idle
Idle == ~isPlaying /\ ~isPlayerTurn

\* C14: an accepted submission that mismatches leaves score, level and
\* sequence unchanged and schedules the game-over callback; that callback,
\* when it runs, leaves the game Idle (isPlaying and isPlayerTurn false); and
\* after a mismatch the game does become Idle, unless startGame is called
\* first.
C14_MismatchEndsGame ==
  /\ [][/\ \A color \in Colors :
             (Accepted(color) /\ ~Matches(color)) =>
               /\ UNCHANGED <<score, level, sequence>>
               /\ timers' = timers (+) SetToBag({EndTimer})
        /\ lastOp' = "end" => Idle']_vars
  /\ mismatched ~> (Idle \/ lastOp = "start")

\* the game-over callback of a mismatch at level 2 has run, and nothing is
\* left pending
C14_Witness ==
  /\ lastOp = "end"
  /\ mismatched
  /\ Idle
  /\ level = 2
  /\ score = 60
  /\ ~isShowingSequence
  /\ timers = EmptyBag

\* C15: replaySequence acts only when isPlaying is true and isShowingSequence
\* is false: then it empties playerSequence and sets isShowingSequence (and
\* clears isPlayerTurn), with sequence, level and score unchanged; in every
\* other state it changes no field, schedules nothing and reveals nothing.
C15_ReplayEffect ==
  [][lastOp' = "replay" =>
       IF isPlaying /\ ~isShowingSequence
       THEN /\ playerSequence' = <<>>
            /\ isShowingSequence'
            /\ ~isPlayerTurn'
            /\ UNCHANGED <<sequence, level, score, isPlaying, isPaused>>
       ELSE UNCHANGED <<gameVars, timers, lastReveal>>]_vars

\* Replay was clicked in the player turn of level 2 after one correct color
\* (score 80): the presentation of the two colors runs again
C15_Witness ==
  /\ lastOp = "replay"
  /\ isPlaying /\ ~isPaused /\ ~mismatched
  /\ isShowingSequence /\ ~isPlayerTurn
  /\ playerSequence = <<>>
  /\ Len(sequence) = 2
  /\ level = 2
  /\ score = 80
  /\ timers = SetToBag({ShowTimer(0)})

\* seq is longer by exactly one element than its prefix old
GrownByOne(old, seq) == \E newColor \in Colors : seq = Append(old, newColor)

\* C16: each entry into the presentation of a new level appends exactly one
\* color to sequence (startGame to the sequence it has just emptied, the
\* level-advance callback to the sequence as it is), and no other step changes
\* sequence: no element is ever changed or removed, and the length only
\* decreases through startGame.
C16_SequenceGrowsByOne ==
  [][/\ lastOp' = "start" => GrownByOne(<<>>, sequence')
     /\ lastOp' = "advance" => GrownByOne(sequence, sequence')
     /\ lastOp' \notin {"start", "advance"} => sequence' = sequence]_vars

\* the level-advance callback has appended the second color, here one equal
\* to the first
C16_Witness ==
  /\ lastOp = "advance"
  /\ Len(sequence) = 2
  /\ sequence[1] = sequence[2]
  /\ isPlaying
  /\ moves

\* C17: while isPlaying is true, level is the number of colors in sequence.
C17_LevelIsSequenceLength == isPlaying => level = Len(sequence)

\* a game started anew is at level 1 with one color, while the level-advance
\* callback of the earlier game is still pending
C17_Witness ==
  /\ lastOp = "start"
  /\ isPlaying
  /\ level = 1
  /\ Len(sequence) = 1
  /\ \E t \in BagToSet(timers) : t.kind = "advance" /\ t.stale

\* this step enters ShowingSequence: startGame, the level-advance callback, or
\* a replaySequence that gets past its guard
EntersShowing ==
  \/ lastOp' \in {"start", "advance"}
  \/ lastOp' = "replay" /\ isPlaying /\ ~isShowingSequence

\* a presentation of the current game is suspended between two reveals
Presenting == \E t \in BagToSet(timers) : t.kind = "show" /\ ~t.stale

\* C18: a presentation entered with the game playing and not paused reveals
\* position 0 and suspends; each time its delay elapses with the game still
\* playing and not paused (and no startGame since) it reveals the next
\* position, or, when every position of sequence was revealed, starts the
\* player turn; and under fair timer firing a suspended presentation leads to
\* PlayerTurn unless the game is paused, ended or started anew first.
C18_PresentationCompletes ==
  /\ [][/\ (EntersShowing /\ isPlaying' /\ ~isPaused') =>
             /\ lastReveal'.idx = 0
             /\ BagIn(ShowTimer(0), timers')
        /\ \A t \in BagToSet(timers) :
             (FireShow(t) /\ ~t.stale /\ isPlaying /\ ~isPaused) =>
               IF t.i + 1 < Len(sequence)
               THEN /\ lastReveal'.idx = t.i + 1
                    /\ timers' = (timers (-) SetToBag({t}))
                                   (+) SetToBag({ShowTimer(t.i + 1)})
                    /\ UNCHANGED <<isShowingSequence, isPlayerTurn>>
               ELSE /\ t.i + 1 = Len(sequence)
                    /\ UNCHANGED lastReveal
                    /\ isPlayerTurn'
                    /\ ~isShowingSequence']_vars
  /\ Presenting ~> (isPlayerTurn \/ isPaused \/ ~isPlaying \/ lastOp = "start")

\* the presentation of level 2 has revealed positions 0 and 1 and handed over
\* to the player, with no pause in between
C18_Witness ==
  /\ lastOp = "show"
  /\ isPlaying /\ ~isPaused
  /\ isPlayerTurn /\ ~isShowingSequence
  /\ Len(sequence) = 2
  /\ lastReveal = [prev |-> 0, idx |-> 1]
  /\ timers = EmptyBag

\* C19: togglePause with isPlaying false changes no field of the game (and
\* schedules nothing); with isPlaying true it flips isPaused and leaves every
\* other field as it is.
C19_PauseOnlyWhilePlaying ==
  [][lastOp' \in {"pause", "resume"} =>
       IF isPlaying
       THEN /\ isPaused' = ~isPaused
            /\ UNCHANGED <<sequence, playerSequence, level, score, isPlaying,
                           isShowingSequence, isPlayerTurn>>
       ELSE UNCHANGED <<gameVars, timers>>]_vars

\* Pause was clicked after the game-over callback of a game had run
C19_Witness ==
  /\ lastOp = "pause"
  /\ ~isPlaying
  /\ ~isPaused
  /\ mismatched
  /\ Len(sequence) > 0

\* the fields of SequenceState in record s
GameFields(s) ==
  <<s.sequence, s.playerSequence, s.level, s.score, s.isPlaying,
    s.isShowingSequence, s.isPlayerTurn, s.isPaused>>

\* C20: in an unpaused player turn, togglePause run twice in a row (pause,
\* then resume, no callback in between) gives back exactly the fields the
\* game had; the state in between is paused and ignores every color, and the
\* state after accepts every color again.
C20_PauseResumeRestores ==
  (isPlayerTurn /\ ~isPaused) =>
    LET paused == TogglePause(Cur)
        resumed == TogglePause(paused)
    IN /\ paused.isPaused
       /\ \A color \in Colors : HandleColorClick(paused, color) = paused
       /\ GameFields(resumed) = GameFields(Cur)
       /\ \A color \in Colors :
            HandleColorClick(resumed, color).playerSequence
              = Append(playerSequence, color)

\* Resume has just been clicked in the player turn of level 2, one color
\* already answered
C20_Witness ==
  /\ lastOp = "resume"
  /\ isPlaying /\ isPlayerTurn /\ ~isPaused
  /\ Len(sequence) = 2
  /\ Len(playerSequence) = 1
  /\ score = 80

\* ------------------------------------------------- the difficulty setting
\* the state after construction when loadSettings finds a stored preference:
\* any value of the difficulty <select>
SettingsInit ==
  /\ sequence = <<>>
  /\ playerSequence = <<>>
  /\ level = 1
  /\ score = 0
  /\ isPlaying = FALSE
  /\ isShowingSequence = FALSE
  /\ isPlayerTurn = FALSE
  /\ isPaused = FALSE
  /\ difficulty \in Difficulties
  /\ timers = EmptyBag
  /\ lastReveal = [prev |-> -1, idx |-> -1]
  /\ mismatched = FALSE
  /\ moves = FALSE
  /\ quiet = FALSE
  /\ recovered = FALSE
  /\ lastOp = "init"
  /\ NoStore
  /\ NoFetch
  /\ FreshBoard

\* The steps that build the sequence: startGame at any time (callbacks of the
\* earlier game stay pending), the presentation, correct answers and the
\* level-advance callback.  The difficulty stays what it was at construction.
GrowNext ==
  \/ Start(FALSE)
  \/ SubmitExpected
  \/ \E t \in BagToSet(timers) : FireShow(t)
  \/ \E t \in BagToSet(timers) : FireAdvance(t)

SettingsSpec == SettingsInit /\ [][GrowNext]_vars

\* C21: with the difficulty "easy" throughout, every two adjacent colors of
\* sequence differ, in every reachable state; and addToSequence can put any
\* of the four colors first.
C21_EasyNoImmediateRepeat ==
  /\ difficulty = "easy" =>
       \A i \in 2..Len(sequence) : sequence[i] # sequence[i - 1]
  /\ NextColors(<<>>, "easy") = Colors

\* an easy game at level 2: the level-advance callback has appended a color
\* other than the first
C21_Witness ==
  /\ difficulty = "easy"
  /\ lastOp = "advance"
  /\ isPlaying
  /\ Len(sequence) = 2
  /\ sequence[1] # sequence[2]

\* C22: for the sequence of every reachable state, the colors addToSequence
\* can push under "adaptive" are those it can push under "medium": all four,
\* the last color of the sequence included.
C22_AdaptiveIsMedium ==
  /\ NextColors(sequence, "adaptive") = NextColors(sequence, "medium")
  /\ NextColors(sequence, "adaptive") = Colors

\* an adaptive game whose level-advance callback has repeated the first color
C22_Witness ==
  /\ difficulty = "adaptive"
  /\ lastOp = "advance"
  /\ Len(sequence) = 2
  /\ sequence[1] = sequence[2]

\* -------------------------------------------- colors the page has no button for
\* a color that is not one of this.colors
UnknownColor == "purple"

\* handleColorClick's document.querySelector finds an element or returns
\* null.  The page has a button for each of this.colors; whether it has an
\* element carrying any other data-color is up to the page.
ButtonFound(color) == IF color \in Colors THEN {TRUE} ELSE BOOLEAN

\* handleColorClick(color) called with any string: past the guard, a null
\* colorBtn makes colorBtn.classList.add throw a TypeError before any field
\* is written
SubmitAny(color) ==
  /\ ~quiet
  /\ \E found \in ButtonFound(color) :
       IF isPlayerTurn /\ ~isPaused /\ ~found
       THEN Yields(Cur, "TypeError")
       ELSE Yields(HandleColorClick(Cur, color), "submit")

\* the game driven by a host that may pass handleColorClick any color
HostNext ==
  \/ Start(FALSE)
  \/ \E color \in Submittable \cup {UnknownColor} : SubmitAny(color)
  \/ Replay
  \/ Pause
  \/ \E t \in BagToSet(timers) : FireShow(t)
  \/ \E t \in BagToSet(timers) : FireAdvance(t)
  \/ \E t \in BagToSet(timers) : FireEnd(t)

HostSpec == Init /\ [][HostNext]_vars

\* C23: a color outside this.colors submitted in an unpaused player turn
\* raises no error and is handled as a mismatch (appended, flagged, game-over
\* callback scheduled).
C23_UnknownColorIsMismatch ==
  [][(isPlayerTurn /\ ~isPaused /\ SubmitAny(UnknownColor)) =>
       /\ lastOp' = "submit"
       /\ playerSequence' = Append(playerSequence, UnknownColor)
       /\ mismatched'
       /\ timers' = timers (+) SetToBag({EndTimer})]_vars

\* ----------------------------------------- the two games and the Store
\* the matching game's this.score when it reports to the Store
MatchScores == {0, 20}

\* matching.js startGame(), as far as the Store goes
MatchStartGame(s) ==
  LET s1 == [s EXCEPT !.matchPlaying = TRUE]
  IN IF s1.hasStore
     THEN LET s2 == RecordGameStart(s1, "matching")
          IN [s2 EXCEPT !.matchSession = Len(s2.sessions)]
     ELSE [s1 EXCEPT !.matchSession = 0]

\* matching.js restartGame(); it passes no level (undefined, written 0)
MatchRestartGame(s, matchScore) ==
  MatchStartGame(
    IF s.matchPlaying /\ s.hasStore /\ s.matchSession # 0
    THEN RecordGameEnd(s, "matching",
                       [score |-> matchScore, level |-> 0,
                        completed |-> FALSE])
    ELSE s)

\* matching.js handleGameComplete()
MatchHandleGameComplete(s, matchScore) ==
  LET s1 == [s EXCEPT !.matchPlaying = FALSE]
  IN IF s1.hasStore /\ s1.matchSession # 0
     THEN RecordGameEnd(s1, "matching",
                        [score |-> matchScore, level |-> 0,
                         completed |-> TRUE])
     ELSE s1

\* the caller clicks the matching game's Start
MatchStart == Yields(MatchStartGame(Cur), "matchStart")

\* the caller clicks the matching game's Restart
MatchRestart ==
  \E matchScore \in MatchScores :
    Yields(MatchRestartGame(Cur, matchScore), "matchRestart")

\* the last pair was matched and the 500 ms callback of handleMatch fires
MatchComplete ==
  /\ matchPlaying
  /\ \E matchScore \in MatchScores :
       Yields(MatchHandleGameComplete(Cur, matchScore), "matchComplete")

\* the page with its storage manager
StoreInit ==
  /\ sequence = <<>>
  /\ playerSequence = <<>>
  /\ level = 1
  /\ score = 0
  /\ isPlaying = FALSE
  /\ isShowingSequence = FALSE
  /\ isPlayerTurn = FALSE
  /\ isPaused = FALSE
  /\ difficulty = "medium"
  /\ timers = EmptyBag
  /\ lastReveal = [prev |-> -1, idx |-> -1]
  /\ mismatched = FALSE
  /\ moves = FALSE
  /\ quiet = FALSE
  /\ recovered = FALSE
  /\ lastOp = "init"
  /\ hasStore = TRUE
  /\ sessions = <<>>
  /\ gameSession = 0
  /\ endCalls = 0
  /\ matchPlaying = FALSE
  /\ matchSession = 0
  /\ preferences = LoadedPreferences
  /\ got = NoGet
  /\ streak = 0
  /\ longestStreak = 0
  /\ NoFetch
  /\ FreshBoard

\* both games played on one page, in any interleaving
StoreNext ==
  \/ Start(FALSE)
  \/ \E color \in Submittable : SubmitColor(color)
  \/ \E t \in BagToSet(timers) : FireShow(t)
  \/ \E t \in BagToSet(timers) : FireAdvance(t)
  \/ \E t \in BagToSet(timers) : FireEnd(t)
  \/ MatchStart
  \/ MatchRestart
  \/ MatchComplete

StoreSpec == StoreInit /\ [][StoreNext]_vars

\* C24: for each game begun by startGame, recordGameEnd("sequence", ...) is
\* called at most once.
C24_RecordedAtMostOnce == endCalls <= 1

\* C30: each recordGameEnd call of a game writes into the session that game's
\* recordGameStart created: after endGame the sequence game's session is
\* ended and holds the score and level passed; after handleGameComplete or a
\* restart in mid-game the matching game's session is ended.  So every
\* session whose game ended has an endTime.
C30_EndWritesOwnSession ==
  [][/\ (lastOp' = "end" /\ gameSession # 0) =>
          sessions'[gameSession] =
            [gameType |-> "sequence", ended |-> TRUE, score |-> score,
             level |-> level, completed |-> FALSE]
     /\ (lastOp' = "matchComplete" /\ matchSession # 0) =>
          /\ sessions'[matchSession].gameType = "matching"
          /\ sessions'[matchSession].ended
          /\ sessions'[matchSession].completed
     /\ (lastOp' = "matchRestart" /\ matchPlaying /\ matchSession # 0) =>
          /\ sessions'[matchSession].gameType = "matching"
          /\ sessions'[matchSession].ended]_vars

\* the player turn of the claim's scenario: [red, blue] to repeat, nothing
\* answered yet
RedBlueTurn ==
  /\ isPlayerTurn /\ ~isPaused
  /\ sequence = <<"red", "blue">>
  /\ playerSequence = <<>>

\* red, then green, submitted in state s: red (correct) adds points to the
\* score, green (blue was expected) leaves the score there and schedules the
\* game-over callback, which leaves the game Idle with that score
RedThenGreen(s, points) ==
  LET afterRed == HandleColorClick(s, "red")
      afterGreen == HandleColorClick(afterRed, "green")
      over == EndGame(Unschedule(afterGreen, EndTimer))
  IN /\ afterRed.score = s.score + points
     /\ afterRed.isPlayerTurn
     /\ afterGreen.score = afterRed.score
     /\ afterGreen.mismatched
     /\ BagIn(EndTimer, afterGreen.timers)
     /\ ~over.isPlaying /\ ~over.isPlayerTurn
     /\ over.score = afterRed.score

\* C25 as claimed: the correct red is worth 10 points.
C25_RedThenGreenTen == RedBlueTurn => RedThenGreen(Cur, 10)

\* C25 as amended: the correct red is worth 10 * level = 20 points, the
\* sequence [red, blue] being that of level 2.
C25_RedThenGreenTwenty == RedBlueTurn => RedThenGreen(Cur, StepPoints * 2)

\* red, then a color other than blue, were submitted for [red, blue]: the
\* score is the 60 of level 1 plus 20, and the game-over callback has run
C25_Witness ==
  /\ lastOp = "end"
  /\ sequence = <<"red", "blue">>
  /\ Len(playerSequence) = 2
  /\ playerSequence[1] = "red"
  /\ playerSequence[2] = "green"
  /\ mismatched
  /\ score = 80
  /\ Idle

\* C26: the sequence startGame presents, the first the player is asked to
\* repeat, has at least 3 items.
C26_FirstSequenceThreeItems ==
  lastOp = "start" => Len(sequence) >= FirstLevelItems

\* C27: at level n (n colors in sequence) the score is at most what
\* all-correct play has earned once level n is complete: the sum over
\* L = 1..n of 10*L*L + 50*L.
C27_ScoreNotInflated == score <= PerfectScore(Len(sequence))

\* ------------------------------------------------ the service worker (sw.js)
\* URLs are sequences of tokens, "/" being a token of its own, so that
\* String.includes is the search for a contiguous run of tokens.
Includes(url, pattern) ==
  \E k \in 0..(Len(url) - Len(pattern)) :
    SubSeq(url, k + 1, k + Len(pattern)) = pattern

\* STATIC_ASSETS
StaticAssets ==
  { <<"/">>,
    <<"/", "index.html">>,
    <<"/", "styles", "/", "main.css">>,
    <<"/", "styles", "/", "themes.css">>,
    <<"/", "styles", "/", "accessibility.css">>,
    <<"/", "styles", "/", "games.css">>,
    <<"/", "scripts", "/", "app.js">>,
    <<"/", "scripts", "/", "accessibility.js">>,
    <<"/", "scripts", "/", "audio.js">>,
    <<"/", "scripts", "/", "storage.js">>,
    <<"/", "scripts", "/", "games", "/", "sequence.js">>,
    <<"/", "scripts", "/", "games", "/", "matching.js">>,
    <<"/", "manifest.json">> }

\* DYNAMIC_ASSETS
DynamicAssets ==
  { <<"/", "assets", "/", "sounds", "/">>,
    <<"/", "assets", "/", "icons", "/">>,
    <<"/", "assets", "/", "images", "/">> }

\* location.origin, and the origin of some other site
LocationOrigin == <<"https:", "/", "/", "memorypal.app">>

OtherOrigin == <<"https:", "/", "/", "cdn.example">>

\* new URL(request.url).origin
OriginOf(url) == SubSeq(url, 1, Len(LocationOrigin))

\* the path of a URL
PathOf(url) == SubSeq(url, Len(LocationOrigin) + 1, Len(url))

\* the paths requested: static assets, dynamic assets and others
Paths ==
  { <<"/">>,
    <<"/", "index.html">>,
    <<"/", "scripts", "/", "games", "/", "sequence.js">>,
    <<"/", "assets", "/", "sounds", "/", "chime.mp3">>,
    <<"/", "assets", "/", "images", "/", "logo.png">>,
    <<"/", "offline.html">>,
    <<"/", "about.html">>,
    <<"/", "api", "/", "stats">> }

\* What fetch(request) does: resolve with status 200, resolve with 404,
\* reject, or resolve with 200 only after NETWORK_TIMEOUT has passed.
NetworkOutcomes == {"ok", "notFound", "fail", "slow"}

\* the URL caches.match("/offline.html") looks up
OfflineUrl == LocationOrigin \o <<"/", "offline.html">>

\* The fetch events: request.method, request.url, request.destination, and
\* what the request finds: caches.match(request) hits or not, the network's
\* outcome, /offline.html in a cache or not.
Requests ==
  {req \in [method : {"GET", "POST"},
            url : {origin \o path : origin \in {LocationOrigin, OtherOrigin},
                                    path \in Paths},
            destination : {"document", "audio"},
            cached : BOOLEAN,
            network : NetworkOutcomes,
            offlineCached : BOOLEAN] :
     (req.method = "GET" /\ req.url = OfflineUrl) =>
       req.cached = req.offlineCached}

\* isDynamicAsset(url)
IsDynamicAsset(url) == \E pattern \in DynamicAssets : Includes(url, pattern)

\* the fetch listener: the strategy it answers with, "none" when it returns
\* without event.respondWith
Route(req) ==
  IF req.method # "GET" THEN "none"
  ELSE IF OriginOf(req.url) # LocationOrigin THEN "none"
  ELSE IF \E asset \in StaticAssets : Includes(req.url, asset)
       THEN "cacheFirst"
  ELSE IF IsDynamicAsset(req.url) THEN "staleWhileRevalidate"
  ELSE "networkFirst"

\* caches.match("/offline.html") || createOfflinePage(): caches.match returns
\* a promise, which is truthy, so createOfflinePage is never called and the
\* result is what the promise resolves to
OfflineFallback(req) == IF req.offlineCached THEN "offline.html" ELSE "undefined"

\* cacheFirstStrategy(request): what the promise it returns settles to
\* ("error" when it rejects)
CacheFirstStrategy(req) ==
  IF req.cached THEN "cached"
  ELSE IF req.network # "fail" THEN "network"
  ELSE IF req.destination = "document" THEN OfflineFallback(req)
  ELSE "error"

\* staleWhileRevalidateStrategy(request)
StaleWhileRevalidateStrategy(req) ==
  IF req.cached THEN "cached"
  ELSE IF req.network # "fail" THEN "network"
  ELSE "null"

\* networkFirstStrategy(request)
NetworkFirstStrategy(req) ==
  IF req.network \in {"ok", "notFound"} THEN "network"
  ELSE IF req.cached THEN "cached"
  ELSE IF req.destination = "document" THEN OfflineFallback(req)
  ELSE "error"

Strategies == {"cacheFirst", "staleWhileRevalidate", "networkFirst"}

\* the result of the named strategy
Respond(strategy, req) ==
  CASE strategy = "cacheFirst" -> CacheFirstStrategy(req)
    [] strategy = "staleWhileRevalidate" -> StaleWhileRevalidateStrategy(req)
    [] strategy = "networkFirst" -> NetworkFirstStrategy(req)
    [] OTHER -> "none"

\* the strategy does cache.put(request, ...): its fetch resolved with status
\* 200 (in time, for networkFirst)
Puts(strategy, req) ==
  CASE strategy = "cacheFirst" -> ~req.cached /\ req.network \in {"ok", "slow"}
    [] strategy = "staleWhileRevalidate" -> req.network \in {"ok", "slow"}
    [] strategy = "networkFirst" -> req.network = "ok"
    [] OTHER -> FALSE

\* the browser dispatches a fetch event and the listener answers it
FetchEvent ==
  /\ response = NoResponse
  /\ LET strategy == Route(request)
     IN /\ response' = [intercepted |-> strategy # "none",
                        strategy |-> strategy,
                        result |-> Respond(strategy, request)]
        /\ request' =
             [request EXCEPT
                !.cached = @ \/ Puts(strategy, request),
                !.offlineCached =
                  @ \/ (request.url = OfflineUrl /\ Puts(strategy, request))]
  /\ lastOp' = "fetch"
  /\ UNCHANGED <<sequence, playerSequence, level, score, isPlaying,
                 isShowingSequence, isPlayerTurn, isPaused, difficulty, timers,
                 lastReveal, mismatched, moves, quiet, recovered, hasStore,
                 sessions, gameSession, endCalls, matchPlaying, matchSession,
                 preferences, got, streak, longestStreak, boardVars>>

\* the service worker alone, with a fetch event about to arrive
WorkerInit ==
  /\ sequence = <<>>
  /\ playerSequence = <<>>
  /\ level = 1
  /\ score = 0
  /\ isPlaying = FALSE
  /\ isShowingSequence = FALSE
  /\ isPlayerTurn = FALSE
  /\ isPaused = FALSE
  /\ difficulty = "medium"
  /\ timers = EmptyBag
  /\ lastReveal = [prev |-> -1, idx |-> -1]
  /\ mismatched = FALSE
  /\ moves = FALSE
  /\ quiet = FALSE
  /\ recovered = FALSE
  /\ lastOp = "init"
  /\ NoStore
  /\ FreshBoard
  /\ request \in Requests
  /\ response = NoResponse

WorkerNext == FetchEvent

WorkerSpec == WorkerInit /\ [][WorkerNext]_vars

\* the URL is one of the static asset list
IsStaticAsset(url) == PathOf(url) \in StaticAssets

\* C28: a same-origin GET for a URL of the static asset list is answered
\* cache-first, one whose URL contains a dynamic-asset directory by
\* stale-while-revalidate, any other by network-first; a request that is not
\* a same-origin GET is not intercepted.
C28_RoutedByAssetClass ==
  lastOp = "fetch" =>
    IF request.method # "GET" \/ OriginOf(request.url) # LocationOrigin
    THEN ~response.intercepted
    ELSE /\ response.intercepted
         /\ response.strategy =
              IF IsStaticAsset(request.url) THEN "cacheFirst"
              ELSE IF IsDynamicAsset(request.url) THEN "staleWhileRevalidate"
              ELSE "networkFirst"

\* C29: for a document request that finds no cached response and whose
\* network fetch fails, each strategy results in a response: the cached
\* /offline.html if there is one, the page of createOfflinePage otherwise.
C29_OfflineFallback ==
  (lastOp = "fetch" /\ response.intercepted
     /\ request.destination = "document" /\ request.network = "fail"
     /\ ~request.cached) =>
    LET fallback ==
          IF request.offlineCached THEN "offline.html" ELSE "offlinePage"
    IN /\ response.result = fallback
       /\ \A strategy \in Strategies : Respond(strategy, request) = fallback

\* ------------------------------------------------------ user preferences
\* values a script saves: a difficulty, a speed (setSpeed takes any number),
\* a flag, an empty text, null
PrefValues ==
  {JsString("easy"), JsString(""), JsNumber(0), JsNumber(5), JsBoolean(FALSE),
   JsNull}

\* the defaults the scripts pass
PrefDefaults == {JsNull, JsString("medium"), JsNumber(3)}

\* the keys saved and read here: one of each type, and one the constructors
\* have not saved
PrefPlayed == {"sequence-difficulty", "sequence-speed", "last-game"}

\* a script saves a preference
SavePreference ==
  \E key \in PrefPlayed, value \in PrefValues :
    Yields(SaveUserPreference(Cur, key, value), "saveUserPreference")

\* a script reads a preference
GetPreference ==
  \E key \in PrefPlayed, defaultValue \in PrefDefaults :
    /\ got' = [key |-> key, defaultValue |-> defaultValue,
               result |-> GetUserPreference(Cur, key, defaultValue)]
    /\ lastOp' = "getUserPreference"
    /\ UNCHANGED <<gameVars, difficulty, timers, lastReveal, mismatched,
                   moves, quiet, recovered, hasStore, sessions, gameSession,
                   endCalls, matchPlaying, matchSession, workerVars,
                   preferences, streak, longestStreak, boardVars>>

PrefNext == SavePreference \/ GetPreference

\* the Store's preferences alone, on the page with its storage manager
PrefSpec == StoreInit /\ [][PrefNext]_vars

\* C31: getUserPreference(k, d) returns the value last saved under k, whatever
\* the value and the default are; it returns d only when k was never saved.
C31_PreferenceRoundTrip ==
  lastOp = "getUserPreference" =>
    got.result = IF preferences[got.key] = JsUndefined
                 THEN got.defaultValue
                 ELSE preferences[got.key]

\* ------------------------------------------------------------ the streak
\* C35: longestStreak is never below streak; a recordGameEnd call with
\* completed true (the matching game's handleGameComplete) raises streak by
\* 1, one with completed false (the sequence game's endGame, a matching game
\* restarted in mid-game) sets it to 0.
C35_StreakBookkeeping ==
  /\ longestStreak >= streak
  /\ [][/\ longestStreak' >= streak'
        /\ (lastOp' = "matchComplete" /\ matchSession # 0) =>
             streak' = streak + 1
        /\ (lastOp' = "end" /\ gameSession # 0) => streak' = 0
        /\ (lastOp' = "matchRestart" /\ matchPlaying /\ matchSession # 0) =>
             streak' = 0]_vars

\* a sequence game ended after a completed matching game: the streak, 1 after
\* the matching game, is 0 again and the longest streak is still 1
C35_Witness ==
  /\ lastOp = "end"
  /\ gameSession # 0
  /\ streak = 0
  /\ longestStreak = 1

\* ------------------------------------------------------ the matching game
\* the symbols of a theme: each of this.themes lists twelve, written 1..12
ThemeSize == 12

MatchDifficulties == {"easy", "medium", "hard", "expert"}

\* updateDifficulty's table; an unknown difficulty gets medium's entry
DifficultyConfig(d) ==
  CASE d = "easy" -> [gridSize |-> 3, pairs |-> 4]
    [] d = "hard" -> [gridSize |-> 5, pairs |-> 12]
    [] d = "expert" -> [gridSize |-> 6, pairs |-> 18]
    [] OTHER -> [gridSize |-> 4, pairs |-> 8]

\* updateDifficulty()
MatchUpdateDifficulty(s) ==
  LET config == DifficultyConfig(s.matchDifficulty)
      s1 == [s EXCEPT !.gridSize = config.gridSize,
                      !.totalPairs = config.pairs]
  IN IF s1.hasStore
     THEN SaveUserPreference(
            SaveUserPreference(s1, "matching-difficulty",
                               JsString(s1.matchDifficulty)),
            "matching-gridsize", JsNumber(s1.gridSize))
     ELSE s1

\* setDifficulty(difficulty), the change listener of the difficulty select
MatchSetDifficulty(s, d) ==
  MatchUpdateDifficulty([s EXCEPT !.matchDifficulty = d])

\* the callbacks of the matching game: checkForMatch after 1000 ms, the
\* flip-back of two mismatched cards after 100 ms (first and second are the
\* cards' positions, 0 once the cards are no longer on the board) and
\* handleGameComplete after 500 ms
CheckTimer == [kind |-> "check", first |-> 0, second |-> 0]

FlipBackTimer(first, second) ==
  [kind |-> "flipBack", first |-> first, second |-> second]

CompleteTimer == [kind |-> "complete", first |-> 0, second |-> 0]

MatchSchedule(s, t) == [s EXCEPT !.matchTimers = @ (+) SetToBag({t})]

MatchUnschedule(s, t) == [s EXCEPT !.matchTimers = @ (-) SetToBag({t})]

\* a pending flip-back keeps the two card objects it closed over; once
\* this.cards is a new array they are cards of no board
OffBoard(t) == [t EXCEPT !.first = 0, !.second = 0]

\* resetGame(); nothing cancels a pending callback
MatchResetGame(s) ==
  [s EXCEPT !.cards = <<>>,
            !.flippedCards = <<>>,
            !.matchedPairs = 0,
            !.matchPlaying = FALSE,
            !.matchTimers = BagOfAll(OffBoard, @)]

\* the rotations a shuffle is drawn from
Shuffles == 0..MaxShuffle

\* shuffleCards(): some permutation of the deck, here a rotation by k
MatchShuffleCards(deck, k) ==
  [i \in 1..Len(deck) |-> deck[((i - 1 + k) % Len(deck)) + 1]]

\* generateCards(): two cards for each of the first pairsNeeded symbols of
\* the theme, as far as the theme has symbols, then the shuffle
MatchGenerateCards(s, k) ==
  LET pairsNeeded == (s.gridSize * s.gridSize) \div 2
      selected == IF pairsNeeded < ThemeSize THEN pairsNeeded ELSE ThemeSize
      deck == [i \in 1..(2 * selected) |->
                 [symbol |-> (i + 1) \div 2, matched |-> FALSE,
                  flipped |-> FALSE]]
  IN [s EXCEPT !.cards = IF selected = 0 THEN <<>>
                         ELSE MatchShuffleCards(deck, k),
               !.totalPairs = pairsNeeded]

\* startGame() with its board
MatchStartGameOnBoard(s, k) ==
  MatchGenerateCards(MatchStartGame(MatchResetGame(s)), k)

\* restartGame() with its board
MatchRestartGameOnBoard(s, matchScore, k) ==
  MatchStartGameOnBoard(
    IF s.matchPlaying /\ s.hasStore /\ s.matchSession # 0
    THEN RecordGameEnd(s, "matching",
                       [score |-> matchScore, level |-> 0,
                        completed |-> FALSE])
    ELSE s,
    k)

\* flipCard(card, ...)
MatchFlipCard(s, index) == [s EXCEPT !.cards[index].flipped = TRUE]

\* handleCardClick(card, cardElement, index)
MatchHandleCardClick(s, index) ==
  IF \/ ~s.matchPlaying
     \/ s.cards[index].flipped
     \/ s.cards[index].matched
     \/ Len(s.flippedCards) >= 2
  THEN s
  ELSE LET s1 == [MatchFlipCard(s, index) EXCEPT
                    !.flippedCards = Append(@, index)]
       IN IF Len(s1.flippedCards) = 2
          THEN MatchSchedule(s1, CheckTimer)
          ELSE s1

\* handleMatch(first, second)
MatchHandleMatch(s, first, second) ==
  LET s1 == [s EXCEPT !.cards[first].matched = TRUE,
                      !.cards[second].matched = TRUE,
                      !.matchedPairs = @ + 1]
  IN IF s1.matchedPairs = s1.totalPairs
     THEN MatchSchedule(s1, CompleteTimer)
     ELSE s1

\* handleMismatch(first, second): the cards stay face up until the 100 ms
\* callback turns them
MatchHandleMismatch(s, first, second) ==
  MatchSchedule(s, FlipBackTimer(first, second))

\* checkForMatch()
MatchCheckForMatch(s) ==
  IF Len(s.flippedCards) # 2
  THEN s
  ELSE LET first == s.flippedCards[1]
           second == s.flippedCards[2]
           s1 == IF s.cards[first].symbol = s.cards[second].symbol
                 THEN MatchHandleMatch(s, first, second)
                 ELSE MatchHandleMismatch(s, first, second)
       IN [s1 EXCEPT !.flippedCards = <<>>]

\* the 100 ms callback of handleMismatch
MatchFlipBack(s, t) ==
  IF t.first = 0
  THEN s
  ELSE [s EXCEPT !.cards[t.first].flipped = FALSE,
                 !.cards[t.second].flipped = FALSE]

\* the symbols with an unmatched card on the board
OpenSymbols(s) ==
  {s.cards[i].symbol : i \in {j \in 1..Len(s.cards) : ~s.cards[j].matched}}

\* the cards the player clicks: those of the MaxInPlay lowest open symbols
Playable(s) ==
  {i \in 1..Len(s.cards) :
     /\ s.cards[i].symbol \in OpenSymbols(s)
     /\ Cardinality({y \in OpenSymbols(s) : y < s.cards[i].symbol}) < MaxInPlay}

\* the two cards of the lowest open symbol
NextPair(s) ==
  {i \in 1..Len(s.cards) :
     /\ s.cards[i].symbol \in OpenSymbols(s)
     /\ \A y \in OpenSymbols(s) : s.cards[i].symbol <= y}

\* the player clicks the matching game's Start
BoardStart ==
  \E k \in Shuffles : Yields(MatchStartGameOnBoard(Cur, k), "matchStart")

\* the player clicks the matching game's Restart
BoardRestart ==
  \E matchScore \in MatchScores, k \in Shuffles :
    Yields(MatchRestartGameOnBoard(Cur, matchScore, k), "matchRestart")

\* the player picks a difficulty
BoardSetDifficulty(d) == Yields(MatchSetDifficulty(Cur, d), "matchSetDifficulty")

\* the player clicks a card of the board
CardClick(index) == Yields(MatchHandleCardClick(Cur, index), "cardClick")

\* the 1000 ms callback of handleCardClick fires
FireCheck(t) ==
  /\ t.kind = "check"
  /\ BagIn(t, matchTimers)
  /\ Yields(MatchCheckForMatch(MatchUnschedule(Cur, t)), "checkForMatch")

\* the 100 ms callback of handleMismatch fires
FireFlipBack(t) ==
  /\ t.kind = "flipBack"
  /\ BagIn(t, matchTimers)
  /\ Yields(MatchFlipBack(MatchUnschedule(Cur, t), t), "flipBack")

\* the 500 ms callback of handleMatch fires
FireComplete(t) ==
  /\ t.kind = "complete"
  /\ BagIn(t, matchTimers)
  /\ \E matchScore \in MatchScores :
       Yields(MatchHandleGameComplete(MatchUnschedule(Cur, t), matchScore),
              "matchComplete")

\* the page with its storage manager when the stored preferences named
\* difficulty d for the matching game: loadSettings read it and
\* updateDifficulty set the grid by it
PageInit(d) ==
  /\ sequence = <<>>
  /\ playerSequence = <<>>
  /\ level = 1
  /\ score = 0
  /\ isPlaying = FALSE
  /\ isShowingSequence = FALSE
  /\ isPlayerTurn = FALSE
  /\ isPaused = FALSE
  /\ difficulty = "medium"
  /\ timers = EmptyBag
  /\ lastReveal = [prev |-> -1, idx |-> -1]
  /\ mismatched = FALSE
  /\ moves = FALSE
  /\ quiet = FALSE
  /\ recovered = FALSE
  /\ lastOp = "init"
  /\ hasStore = TRUE
  /\ sessions = <<>>
  /\ gameSession = 0
  /\ endCalls = 0
  /\ matchPlaying = FALSE
  /\ matchSession = 0
  /\ preferences =
       [LoadedPreferences EXCEPT
          !["matching-difficulty"] = JsString(d),
          !["matching-gridsize"] = JsNumber(DifficultyConfig(d).gridSize)]
  /\ got = NoGet
  /\ streak = 0
  /\ longestStreak = 0
  /\ NoFetch
  /\ matchDifficulty = d
  /\ gridSize = DifficultyConfig(d).gridSize
  /\ totalPairs = DifficultyConfig(d).pairs
  /\ cards = <<>>
  /\ flippedCards = <<>>
  /\ matchedPairs = 0
  /\ matchTimers = EmptyBag

\* one matching game, started once and played without a restart, at any of
\* the four difficulties
PlayInit == \E d \in MatchDifficulties : PageInit(d)

PlayNext ==
  \/ matchSession = 0 /\ BoardStart
  \/ \E index \in Playable(Cur) : CardClick(index)
  \/ \E t \in BagToSet(matchTimers) : FireCheck(t)
  \/ \E t \in BagToSet(matchTimers) : FireFlipBack(t)
  \/ \E t \in BagToSet(matchTimers) : FireComplete(t)

\* the browser runs every pending callback once its delay has elapsed
PlayFairness ==
  /\ WF_vars(\E t \in BagToSet(matchTimers) : FireCheck(t))
  /\ WF_vars(\E t \in BagToSet(matchTimers) : FireFlipBack(t))
  /\ WF_vars(\E t \in BagToSet(matchTimers) : FireComplete(t))

PlaySpec == PlayInit /\ [][PlayNext]_vars /\ PlayFairness

\* the difficulties picked while a game may be under way
BoardDifficulties == {"easy", "medium"}

BoardInit == \E d \in BoardDifficulties : PageInit(d)

\* the matching game started, restarted and set to another difficulty at any
\* moment, under a player who turns up one pair after the other
BoardNext ==
  \/ BoardStart
  \/ BoardRestart
  \/ \E d \in BoardDifficulties : BoardSetDifficulty(d)
  \/ \E index \in NextPair(Cur) : CardClick(index)
  \/ \E t \in BagToSet(matchTimers) : FireCheck(t)
  \/ \E t \in BagToSet(matchTimers) : FireComplete(t)

BoardSpec == BoardInit /\ [][BoardNext]_vars

\* the cards face up and not matched
FaceUp == {i \in 1..Len(cards) : cards[i].flipped /\ ~cards[i].matched}

\* C32: at most two cards of the board are face up and unmatched, and
\* flippedCards holds at most two entries.
C32_AtMostTwoFaceUp ==
  /\ Cardinality(FaceUp) <= 2
  /\ Len(flippedCards) <= 2

\* every card of the board is matched and the game is still on
AllMatched ==
  /\ matchPlaying
  /\ cards # <<>>
  /\ \A i \in 1..Len(cards) : cards[i].matched

\* handleGameComplete ran: the game is over and its session says completed
Completed ==
  /\ ~matchPlaying
  /\ matchSession # 0
  /\ sessions[matchSession].completed

\* C33: at every difficulty, once the player has matched every card of the
\* board the game completes: handleGameComplete runs, isPlaying becomes false
\* and the session is recorded as completed.
C33_MatchedBoardCompletes == AllMatched ~> Completed

\* C34: handleGameComplete reports completed: true to the Store only when
\* every card of the board being played is matched and matchedPairs equals
\* totalPairs, whatever restart or difficulty change came while a callback
\* was pending.
C34_CompletedOnlyWhenAllMatched ==
  [][(lastOp' = "matchComplete" /\ hasStore /\ matchSession # 0) =>
       /\ cards # <<>>
       /\ \A i \in 1..Len(cards) : cards[i].matched
       /\ matchedPairs = totalPairs]_vars

=============================================================================
